---------------------------- MODULE Spec2Model ----------------------------
(***************************************************************************)
(* A model of the signal engine of src/lib/services/signal-engine.ts:      *)
(* the indicator functions (calculateFibLevels, findNearestFibLevels,      *)
(* calculateRSI, calculateEMA, calculateMACD), the five sub-scores, the    *)
(* label and generateSignals.                                              *)
(*                                                                         *)
(* A JavaScript number is modelled as an exact extended rational <<n, d>>: *)
(* d > 0 and gcd(n, d) = 1 for a finite value, <<1, 0>> and <<-1, 0>> for  *)
(* +Infinity and -Infinity, <<0, 0>> for NaN (what arithmetic on           *)
(* `undefined` yields).  null is the empty tuple.  Arithmetic is exact, so *)
(* the rounding of IEEE doubles and their overflow at 1.8e308 are outside  *)
(* the model; division by zero, NaN propagation and out-of-range array     *)
(* reads are inside it.                                                    *)
(***************************************************************************)
EXTENDS Integers, Sequences, FiniteSets, TLC

VARIABLES closePrices, op, arg, ret

vars == <<closePrices, op, arg, ret>>

---------------------------------------------------------------------------
(* JavaScript numbers                                                      *)

NaN == <<0, 0>>

PosInf == <<1, 0>>

NegInf == <<-1, 0>>

Null == <<>>

AbsInt(i) == IF i < 0 THEN -i ELSE i

SignInt(i) == IF i < 0 THEN -1 ELSE IF i > 0 THEN 1 ELSE 0

RECURSIVE GCD(_, _)
GCD(a, b) == IF b = 0 THEN AbsInt(a) ELSE GCD(b, a % AbsInt(b))

Norm(n, d) ==
  LET g == GCD(n, d)
  IN  IF d < 0 THEN <<(-n) \div g, (-d) \div g>> ELSE <<n \div g, d \div g>>

Num(i) == <<i, 1>>

Frac(n, d) == Norm(n, d)

IsNaN(a) == a = NaN

\* for (i = from; i < to; i++) acc = Body(acc, i).  The range is split in two and
\* the first half is evaluated before the second half starts, which keeps TLC's
\* evaluation stack logarithmic in the number of iterations.
RECURSIVE ForLoop(_, _, _, _)
ForLoop(Body(_, _), acc, from, to) ==
  IF from >= to THEN acc
  ELSE IF to - from = 1 THEN Body(acc, from)
  ELSE LET mid == (from + to) \div 2
       IN  CHOOSE r \in {ForLoop(Body, left, mid, to) :
                           left \in {ForLoop(Body, acc, from, mid)}} : TRUE

\* A finite non-zero number held as an IEEE 754 double is <<sign, exponent,
\* mantissa>>: sign 1 or -1 and the value sign * mantissa * 2^exponent, the
\* mantissa a 53-bit natural with its top bit set, written as four limbs of 14
\* bits, least significant first.  A price given as a double makes every
\* operation on it round to the nearest double, ties to even; zero is <<0, 1>>
\* (the sign of zero is not kept).
LimbBits == 14

LimbBase == 16384

MantissaBits == 53

\* the exponent of the least subnormal, and the greatest exponent of a 53-bit
\* mantissa
MinExponent == -1074

MaxExponent == 971

IsDouble(a) == Len(a) = 3

NatHead(a) == IF a = <<>> THEN 0 ELSE Head(a)

NatTail(a) == IF a = <<>> THEN <<>> ELSE Tail(a)

\* a natural without its leading zero limbs
RECURSIVE NatTrim(_)
NatTrim(a) ==
  IF a # <<>> /\ a[Len(a)] = 0 THEN NatTrim(SubSeq(a, 1, Len(a) - 1)) ELSE a

RECURSIVE NatAddCarry(_, _, _)
NatAddCarry(a, b, carry) ==
  IF a = <<>> /\ b = <<>> THEN (IF carry = 0 THEN <<>> ELSE <<carry>>)
  ELSE <<(NatHead(a) + NatHead(b) + carry) % LimbBase>>
       \o NatAddCarry(NatTail(a), NatTail(b), (NatHead(a) + NatHead(b) + carry) \div LimbBase)

NatAdd(a, b) == NatAddCarry(a, b, 0)

RECURSIVE NatSubBorrow(_, _, _)
NatSubBorrow(a, b, borrow) ==
  IF a = <<>> THEN <<>>
  ELSE <<(Head(a) - NatHead(b) - borrow) % LimbBase>>
       \o NatSubBorrow(Tail(a), NatTail(b), IF Head(a) - NatHead(b) - borrow < 0 THEN 1 ELSE 0)

\* a - b for a >= b
NatSub(a, b) == NatTrim(NatSubBorrow(a, b, 0))

RECURSIVE NatCmpFrom(_, _, _)
NatCmpFrom(a, b, i) ==
  IF i = 0 THEN 0
  ELSE IF a[i] < b[i] THEN -1
  ELSE IF a[i] > b[i] THEN 1
  ELSE NatCmpFrom(a, b, i - 1)

\* -1, 0 or 1 for two naturals without leading zero limbs
NatCmp(a, b) ==
  IF Len(a) < Len(b) THEN -1
  ELSE IF Len(a) > Len(b) THEN 1
  ELSE NatCmpFrom(a, b, Len(a))

\* a * k + carry for one limb k
RECURSIVE NatMulLimb(_, _, _)
NatMulLimb(a, k, carry) ==
  IF a = <<>> THEN (IF carry = 0 THEN <<>> ELSE <<carry>>)
  ELSE <<(Head(a) * k + carry) % LimbBase>>
       \o NatMulLimb(Tail(a), k, (Head(a) * k + carry) \div LimbBase)

RECURSIVE NatMulLimbs(_, _)
NatMulLimbs(a, b) ==
  IF b = <<>> THEN <<>>
  ELSE NatAdd(NatMulLimb(a, Head(b), 0), <<0>> \o NatMulLimbs(a, Tail(b)))

NatMul(a, b) == NatTrim(NatMulLimbs(a, b))

\* a * 2^k
NatShl(a, k) ==
  IF a = <<>> THEN <<>>
  ELSE [i \in 1..(k \div LimbBits) |-> 0] \o NatMulLimb(a, 2 ^ (k % LimbBits), 0)

NatShrLimbs(x, p) ==
  NatTrim([i \in 1..Len(x) |->
             (x[i] \div p) + (IF i < Len(x) THEN (x[i + 1] % p) * (LimbBase \div p) ELSE 0)])

\* a \div 2^k
NatShr(a, k) ==
  IF k \div LimbBits >= Len(a) THEN <<>>
  ELSE NatShrLimbs(SubSeq(a, k \div LimbBits + 1, Len(a)), 2 ^ (k % LimbBits))

\* bit i of a, bit 0 the least significant
NatBit(a, i) ==
  IF i < 0 \/ i \div LimbBits + 1 > Len(a) THEN 0
  ELSE (a[i \div LimbBits + 1] \div (2 ^ (i % LimbBits))) % 2

\* some bit of a below bit k is set
NatAnyBelow(a, k) ==
  \/ \E j \in 1..Len(a) : j <= k \div LimbBits /\ a[j] # 0
  \/ /\ k >= 0
     /\ k \div LimbBits + 1 <= Len(a)
     /\ a[k \div LimbBits + 1] % (2 ^ (k % LimbBits)) # 0

\* the number of bits of a non-zero natural without leading zero limbs
NatBitLen(a) ==
  LimbBits * (Len(a) - 1)
  + (CHOOSE n \in 1..LimbBits : 2 ^ (n - 1) <= a[Len(a)] /\ a[Len(a)] < 2 ^ n)

\* the limbs of an integer 0 <= n < 2^31
NatOfInt(n) ==
  NatTrim(<<n % LimbBase, (n \div LimbBase) % LimbBase, n \div (LimbBase * LimbBase)>>)

\* q * 2^e for a non-zero q of at most 54 bits, its mantissa brought to 53 bits;
\* Infinity beyond the greatest double
PackDouble(sign, q, e, len) ==
  IF e - (MantissaBits - len) > MaxExponent THEN <<sign, 0>>
  ELSE <<sign, e - (MantissaBits - len),
         IF len <= MantissaBits THEN NatShl(q, MantissaBits - len) ELSE NatShr(q, 1)>>

\* n with its r lowest bits rounded away, to nearest and ties to even
RoundShift(n, r, q) ==
  IF NatBit(n, r - 1) = 1 /\ (NatAnyBelow(n, r - 1) \/ NatBit(q, 0) = 1)
  THEN NatAdd(q, <<1>>)
  ELSE q

PackRounded(sign, q, e) ==
  IF q = <<>> THEN <<0, 1>> ELSE PackDouble(sign, q, e, NatBitLen(q))

RoundDrop(sign, n, e, r) == PackRounded(sign, RoundShift(n, r, NatShr(n, r)), e + r)

\* the number of bits to round away: those beyond 53, more below 2^-1022
DropBits(over, under) ==
  IF over >= under THEN (IF over > 0 THEN over ELSE 0)
  ELSE (IF under > 0 THEN under ELSE 0)

\* the double nearest to sign * n * 2^e for a natural n > 0
RoundNearest(sign, n, e) ==
  RoundDrop(sign, n, e, DropBits(NatBitLen(n) - MantissaBits, MinExponent - e))

\* the double of an integer n # 0 (exact: |n| < 2^31)
DoubleOfInt(n) == PackRounded(SignInt(n), NatOfInt(AbsInt(n)), 0)

MagLt(a, b) == a[2] < b[2] \/ (a[2] = b[2] /\ NatCmp(a[3], b[3]) < 0)

\* d[1] < d[2] for two doubles
DoubleLess(d) ==
  IF d[1][1] # d[2][1] THEN d[1][1] < d[2][1]
  ELSE IF d[1][1] = 1 THEN MagLt(d[1], d[2])
  ELSE MagLt(d[2], d[1])

\* hi + lo for two doubles, hi the one with the greater exponent; x is hi's
\* mantissa at lo's exponent
DoubleSumAligned(hi, lo, x) ==
  IF hi[1] # lo[1] /\ NatCmp(x, lo[3]) = 0 THEN <<0, 1>>
  ELSE RoundNearest(IF hi[1] = lo[1] \/ NatCmp(x, lo[3]) > 0 THEN hi[1] ELSE lo[1],
                    IF hi[1] = lo[1] THEN NatAdd(x, lo[3])
                    ELSE NatSub(IF NatCmp(x, lo[3]) > 0 THEN x ELSE lo[3],
                                IF NatCmp(x, lo[3]) > 0 THEN lo[3] ELSE x),
                    lo[2])

\* beyond 55 bits of distance the smaller operand is rounded away
DoubleSumOrdered(hi, lo) ==
  IF hi[2] - lo[2] > MantissaBits + 2 THEN hi
  ELSE DoubleSumAligned(hi, lo, NatShl(hi[3], hi[2] - lo[2]))

\* d[1] + d[2] for two doubles
DoubleSum(d) ==
  DoubleSumOrdered(IF d[1][2] >= d[2][2] THEN d[1] ELSE d[2],
                   IF d[1][2] >= d[2][2] THEN d[2] ELSE d[1])

\* d[1] * d[2] for two doubles
DoubleProduct(d) ==
  RoundNearest(d[1][1] * d[2][1], NatMul(d[1][3], d[2][3]), d[1][2] + d[2][2])

\* one step of the long division: the next bit of the quotient
DivideStep(acc, m) ==
  IF NatCmp(acc.rem, m) >= 0
  THEN [rem |-> NatShl(NatSub(acc.rem, m), 1), quot |-> NatAddCarry(acc.quot, acc.quot, 1)]
  ELSE [rem |-> NatShl(acc.rem, 1), quot |-> NatShl(acc.quot, 1)]

\* the 57 leading bits of a / b and one more bit that is set when the division
\* is inexact
DoubleQuotientBits(a, b) ==
  LET Body(acc, i) == DivideStep(acc, b[3])
      SetSticky(acc) == NatAddCarry(acc.quot, acc.quot, IF acc.rem = <<>> THEN 0 ELSE 1)
  IN  SetSticky(ForLoop(Body, [rem |-> a[3], quot |-> <<>>], 0, MantissaBits + 4))

\* d[1] / d[2] for two doubles
DoubleQuotient(d) ==
  RoundNearest(d[1][1] * d[2][1], DoubleQuotientBits(d[1], d[2]),
               d[1][2] - d[2][2] - (MantissaBits + 4))

RECURSIVE DoubleDiv(_, _)

\* the double of a finite non-zero number: itself, or the nearest double of the
\* exact value (a literal, or one operation on two integers)
ToDouble(a) ==
  IF IsDouble(a) THEN a
  ELSE IF a[2] = 1 THEN DoubleOfInt(a[1])
  ELSE DoubleDiv(<<a[1], 1>>, <<a[2], 1>>)

\* the doubles of the operands
Doubles(s) == [i \in 1..Len(s) |-> ToDouble(s[i])]

\* Infinity, -Infinity or NaN
NonFinite(a) == Len(a) = 2 /\ a[2] = 0

\* -1, 0 or 1
SignOf(a) == IF IsDouble(a) THEN a[1] ELSE SignInt(a[1])

\* a + b with a double among the operands
DoubleAdd(a, b) ==
  IF NonFinite(a) THEN a
  ELSE IF NonFinite(b) THEN b
  ELSE IF a = <<0, 1>> THEN b
  ELSE IF b = <<0, 1>> THEN a
  ELSE DoubleSum(Doubles(<<a, b>>))

\* a * b with a double among the operands
DoubleMul(a, b) ==
  IF a = <<0, 0>> \/ b = <<0, 0>> THEN <<0, 0>>
  ELSE IF NonFinite(a) \/ NonFinite(b) THEN <<SignOf(a) * SignOf(b), 0>>
  ELSE IF a = <<0, 1>> \/ b = <<0, 1>> THEN <<0, 1>>
  ELSE DoubleProduct(Doubles(<<a, b>>))

\* a / b with a double among the operands, or for two integers
DoubleDiv(a, b) ==
  IF a = <<0, 0>> \/ b = <<0, 0>> THEN <<0, 0>>
  ELSE IF NonFinite(a) THEN <<SignOf(a) * SignOf(b), 0>>
  ELSE IF NonFinite(b) THEN <<0, 1>>
  ELSE IF b = <<0, 1>> THEN <<SignOf(a), 0>>
  ELSE IF a = <<0, 1>> THEN <<0, 1>>
  ELSE DoubleQuotient(Doubles(<<a, b>>))

\* -2 or 2 for an infinity, else the sign
Rank(a) == IF NonFinite(a) THEN 2 * a[1] ELSE SignOf(a)

\* a < b with a double among the operands, neither NaN
DoubleLt(a, b) ==
  IF NonFinite(a) \/ NonFinite(b) \/ a = <<0, 1>> \/ b = <<0, 1>>
  THEN Rank(a) < Rank(b)
  ELSE DoubleLess(Doubles(<<a, b>>))

\* a === b with a double among the operands, neither NaN
DoubleEq(a, b) ==
  /\ ~NonFinite(a) /\ ~NonFinite(b) /\ a # <<0, 1>> /\ b # <<0, 1>>
  /\ Doubles(<<a, b>>)[1] = Doubles(<<a, b>>)[2]

\* Math.round of a double: the integer floor(y + 1/2), found exactly
DoubleMathRound(y) ==
  IF y[2] >= 0 THEN y
  ELSE IF -y[2] > MantissaBits + 1 THEN <<0, 1>>
  ELSE IF y[1] = 1
  THEN PackRounded(1, NatShr(NatAdd(y[3], NatShl(<<1>>, -y[2] - 1)), -y[2]), 0)
  ELSE IF NatCmp(y[3], NatShl(<<1>>, -y[2] - 1)) <= 0 THEN <<0, 1>>
  ELSE PackRounded(-1, NatShr(NatAdd(NatSub(y[3], NatShl(<<1>>, -y[2] - 1)),
                                     NatSub(NatShl(<<1>>, -y[2]), <<1>>)), -y[2]), 0)

IsFinite(a) == a # Null /\ (IsDouble(a) \/ a[2] # 0)

Neg(a) == IF IsDouble(a) THEN <<-a[1], a[2], a[3]>> ELSE <<-a[1], a[2]>>

Add(a, b) ==
  IF IsDouble(a) \/ IsDouble(b) THEN DoubleAdd(a, b)
  ELSE IF IsNaN(a) \/ IsNaN(b) THEN NaN
  ELSE IF a[2] = 0 /\ b[2] = 0 THEN (IF a = b THEN a ELSE NaN)
  ELSE IF a[2] = 0 THEN a
  ELSE IF b[2] = 0 THEN b
  ELSE LET g == GCD(a[2], b[2])
       IN  Norm(a[1] * (b[2] \div g) + b[1] * (a[2] \div g), (a[2] \div g) * b[2])

Sub(a, b) == Add(a, Neg(b))

\* a * b for two exact values
RationalMul(a, b) ==
  IF IsNaN(a) \/ IsNaN(b) THEN NaN
  ELSE IF a[2] = 0 \/ b[2] = 0
       THEN (IF a[1] = 0 \/ b[1] = 0 THEN NaN
             ELSE <<SignInt(a[1]) * SignInt(b[1]), 0>>)
  ELSE LET g1 == GCD(a[1], b[2])
           g2 == GCD(b[1], a[2])
       IN  IF a[1] = 0 \/ b[1] = 0 THEN <<0, 1>>
           ELSE Norm((a[1] \div g1) * (b[1] \div g2), (a[2] \div g2) * (b[2] \div g1))

Mul(a, b) == IF IsDouble(a) \/ IsDouble(b) THEN DoubleMul(a, b) ELSE RationalMul(a, b)

Div(a, b) ==
  IF IsDouble(a) \/ IsDouble(b) THEN DoubleDiv(a, b)
  ELSE IF IsNaN(a) \/ IsNaN(b) THEN NaN
  ELSE IF a[2] = 0 /\ b[2] = 0 THEN NaN
  ELSE IF a[2] = 0 THEN <<a[1] * (IF b[1] < 0 THEN -1 ELSE 1), 0>>
  ELSE IF b[2] = 0 THEN <<0, 1>>
  ELSE IF b[1] = 0 THEN (IF a[1] = 0 THEN NaN ELSE <<SignInt(a[1]), 0>>)
  ELSE RationalMul(a, Norm(b[2], b[1]))

\* a < b, false when either side is NaN; finite values are compared by their
\* integer parts first, which keeps the products small
Lt(a, b) ==
  /\ ~IsNaN(a)
  /\ ~IsNaN(b)
  /\ a # b
  /\ IF IsDouble(a) \/ IsDouble(b) THEN DoubleLt(a, b)
     ELSE IF a[2] = 0 \/ b[2] = 0 THEN Rank(a) < Rank(b)
     ELSE LET g == GCD(a[2], b[2])
              qa == a[1] \div a[2]
              qb == b[1] \div b[2]
          IN  \/ qa < qb
              \/ /\ qa = qb
                 /\ (a[1] % a[2]) * (b[2] \div g) < (b[1] % b[2]) * (a[2] \div g)

Le(a, b) == ~IsNaN(a) /\ ~IsNaN(b) /\ ~Lt(b, a)

Gt(a, b) == Lt(b, a)

Ge(a, b) == Le(b, a)

\* a === b on numbers
StrictEq(a, b) ==
  /\ ~IsNaN(a)
  /\ ~IsNaN(b)
  /\ \/ a = b
     \/ (IsDouble(a) \/ IsDouble(b)) /\ DoubleEq(a, b)

\* !x for x: number | null
Falsy(x) == x = Null \/ x = NaN \/ x = <<0, 1>>

MathAbs(a) == IF IsDouble(a) THEN <<1, a[2], a[3]>> ELSE <<AbsInt(a[1]), a[2]>>

Max2(a, b) == IF IsNaN(a) \/ IsNaN(b) THEN NaN ELSE IF Lt(a, b) THEN b ELSE a

Min2(a, b) == IF IsNaN(a) \/ IsNaN(b) THEN NaN ELSE IF Lt(b, a) THEN b ELSE a

\* xs[i] with the array's 0-based index; `undefined` is NaN in arithmetic
At(xs, i) == IF i >= 0 /\ i < Len(xs) THEN xs[i + 1] ELSE NaN

\* Math.max(...xs): -Infinity for no arguments
MathMax(xs) ==
  LET Body(acc, i) == Max2(acc, At(xs, i))
  IN  ForLoop(Body, NegInf, 0, Len(xs))

\* Math.min(...xs): +Infinity for no arguments
MathMin(xs) ==
  LET Body(acc, i) == Min2(acc, At(xs, i))
  IN  ForLoop(Body, PosInf, 0, Len(xs))

\* xs.slice(start)
Slice(xs, start) ==
  LET from == IF start < 0 THEN (IF Len(xs) + start < 0 THEN 0 ELSE Len(xs) + start)
              ELSE (IF start > Len(xs) THEN Len(xs) ELSE start)
  IN  SubSeq(xs, from + 1, Len(xs))

---------------------------------------------------------------------------
(* Exponential moving average                                              *)

\* the sum of the first n prices
SumFirst(prices, n) ==
  LET Body(sum, i) == Add(sum, At(prices, i))
  IN  ForLoop(Body, Num(0), 0, n)

\* calculateEMA with the loop started one price late (i = period + 1)
calculateEMA_SkipFirst(prices, p) ==
  LET multiplier == Div(Num(2), Num(p + 1))
      Body(emaValues, i) ==
        LET last == At(emaValues, Len(emaValues) - 1)
        IN  Append(emaValues, Add(Mul(Sub(At(prices, i), last), multiplier), last))
  IN  IF Len(prices) < p THEN <<>>
      ELSE ForLoop(Body, <<Div(SumFirst(prices, p), Num(p))>>, p + 1, Len(prices))

\* calculateEMA with the smoothing multiplier 2 / period
calculateEMA_PeriodMultiplier(prices, p) ==
  LET multiplier == Div(Num(2), Num(p))
      Body(emaValues, i) ==
        LET last == At(emaValues, Len(emaValues) - 1)
        IN  Append(emaValues, Add(Mul(Sub(At(prices, i), last), multiplier), last))
  IN  IF Len(prices) < p THEN <<>>
      ELSE ForLoop(Body, <<Div(SumFirst(prices, p), Num(p))>>, p, Len(prices))

calculateEMA(prices, p) ==
  LET multiplier == Div(Num(2), Num(p + 1))
      Body(emaValues, i) ==
        LET last == At(emaValues, Len(emaValues) - 1)
        IN  Append(emaValues, Add(Mul(Sub(At(prices, i), last), multiplier), last))
  IN  IF Len(prices) < p THEN <<>>
      ELSE ForLoop(Body, <<Div(SumFirst(prices, p), Num(p))>>, p, Len(prices))

\* getLatestEMA's choice without the fallback to the last price
LatestOrPrice_NoFallback(ema, prices) == At(ema, Len(ema) - 1)

\* ema.length > 0 ? ema[ema.length - 1] : prices[prices.length - 1]
LatestOrPrice(ema, prices) ==
  IF Len(ema) > 0 THEN At(ema, Len(ema) - 1) ELSE At(prices, Len(prices) - 1)

\* getLatestEMA falling back to the first price of the series
getLatestEMA_FirstPrice(prices, p) ==
  IF Len(prices) < p THEN At(prices, 0) ELSE At(calculateEMA(prices, p), Len(prices) - p)

getLatestEMA(prices, p) == LatestOrPrice(calculateEMA(prices, p), prices)

\* scoreEMAAlignment with the four weights in the opposite order (3, 4, 4, 5)
scoreEMAAlignment_WeightsReversed(price, ema9, ema21, ema50, ema200) ==
  LET above == (IF Gt(price, ema9) THEN 3 ELSE 0) + (IF Gt(price, ema21) THEN 4 ELSE 0)
               + (IF Gt(price, ema50) THEN 4 ELSE 0) + (IF Gt(price, ema200) THEN 5 ELSE 0)
      bull  == IF Gt(ema9, ema21) /\ Gt(ema21, ema50) /\ Gt(ema50, ema200) THEN 4 ELSE 0
      bear  == IF Lt(ema9, ema21) /\ Lt(ema21, ema50) /\ Lt(ema50, ema200) THEN 4 ELSE 0
      below == (IF Lt(price, ema9) THEN 3 ELSE 0) + (IF Lt(price, ema21) THEN 4 ELSE 0)
               + (IF Lt(price, ema50) THEN 4 ELSE 0) + (IF Lt(price, ema200) THEN 5 ELSE 0)
      score == above + bull - bear - below
  IN  IF score > 20 THEN 20 ELSE IF score < -20 THEN -20 ELSE score

scoreEMAAlignment(price, ema9, ema21, ema50, ema200) ==
  LET above == (IF Gt(price, ema9) THEN 5 ELSE 0) + (IF Gt(price, ema21) THEN 4 ELSE 0)
               + (IF Gt(price, ema50) THEN 4 ELSE 0) + (IF Gt(price, ema200) THEN 3 ELSE 0)
      bull  == IF Gt(ema9, ema21) /\ Gt(ema21, ema50) /\ Gt(ema50, ema200) THEN 4 ELSE 0
      bear  == IF Lt(ema9, ema21) /\ Lt(ema21, ema50) /\ Lt(ema50, ema200) THEN 4 ELSE 0
      below == (IF Lt(price, ema9) THEN 5 ELSE 0) + (IF Lt(price, ema21) THEN 4 ELSE 0)
               + (IF Lt(price, ema50) THEN 4 ELSE 0) + (IF Lt(price, ema200) THEN 3 ELSE 0)
      score == above + bull - bear - below
  IN  IF score > 20 THEN 20 ELSE IF score < -20 THEN -20 ELSE score

---------------------------------------------------------------------------
(* Fibonacci retracement                                                   *)

\* the record with the levels measured upwards from the low
FibFromHighLow_FromLow(high, low) ==
  LET range == Sub(high, low)
  IN  [high      |-> high,
       low       |-> low,
       level_236 |-> Add(low, Mul(range, Frac(236, 1000))),
       level_382 |-> Add(low, Mul(range, Frac(382, 1000))),
       level_500 |-> Add(low, Mul(range, Frac(5, 10))),
       level_618 |-> Add(low, Mul(range, Frac(618, 1000))),
       level_786 |-> Add(low, Mul(range, Frac(786, 1000)))]

\* the record calculateFibLevels builds from the window's high and low
FibFromHighLow(high, low) ==
  LET range == Sub(high, low)
  IN  [high      |-> high,
       low       |-> low,
       level_236 |-> Sub(high, Mul(range, Frac(236, 1000))),
       level_382 |-> Sub(high, Mul(range, Frac(382, 1000))),
       level_500 |-> Sub(high, Mul(range, Frac(5, 10))),
       level_618 |-> Sub(high, Mul(range, Frac(618, 1000))),
       level_786 |-> Sub(high, Mul(range, Frac(786, 1000)))]

FibFromWindow(window) == FibFromHighLow(MathMax(window), MathMin(window))

\* calculateFibLevels over the first lookback prices: prices.slice(0, lookback)
calculateFibLevels_Head(prices, lookback) ==
  FibFromWindow(SubSeq(prices, 1, IF lookback < Len(prices) THEN lookback ELSE Len(prices)))

calculateFibLevels(prices, lookback) == FibFromWindow(Slice(prices, -lookback))

FibCandidates(f) ==
  <<f.low, f.level_786, f.level_618, f.level_500, f.level_382, f.level_236, f.high>>

\* findNearestFibLevels with the two price comparisons exchanged
findNearestFibLevels_Swapped(price, f) ==
  LET levels == FibCandidates(f)
      Body(acc, i) ==
        LET level == At(levels, i)
        IN  [support    |-> IF Ge(level, price)
                               /\ (Falsy(acc.support) \/ Gt(level, acc.support))
                            THEN level ELSE acc.support,
             resistance |-> IF Le(level, price)
                               /\ (Falsy(acc.resistance) \/ Lt(level, acc.resistance))
                            THEN level ELSE acc.resistance]
  IN  ForLoop(Body, [support |-> Null, resistance |-> Null], 0, Len(levels))

findNearestFibLevels(price, f) ==
  LET levels == FibCandidates(f)
      Body(acc, i) ==
        LET level == At(levels, i)
        IN  [support    |-> IF Le(level, price)
                               /\ (Falsy(acc.support) \/ Gt(level, acc.support))
                            THEN level ELSE acc.support,
             resistance |-> IF Ge(level, price)
                               /\ (Falsy(acc.resistance) \/ Lt(level, acc.resistance))
                            THEN level ELSE acc.resistance]
  IN  ForLoop(Body, [support |-> Null, resistance |-> Null], 0, Len(levels))

\* scoreFibPosition with the lower zone scored -30, the bound its header comment
\* names
scoreFibPosition_Thirty(price, f) ==
  LET range    == Sub(f.high, f.low)
      position == Div(Sub(price, f.low), range)
  IN  IF StrictEq(range, Num(0)) THEN 0
      ELSE IF Ge(position, Frac(6, 10)) /\ Le(position, Frac(65, 100)) THEN 20
      ELSE IF Ge(position, Frac(75, 100)) /\ Le(position, Frac(8, 10)) THEN 15
      ELSE IF Ge(position, Frac(35, 100)) /\ Le(position, Frac(4, 10)) THEN 10
      ELSE IF Gt(position, Num(1)) THEN 30
      ELSE IF Lt(position, Num(0)) THEN -30
      ELSE IF Gt(position, Frac(764, 1000)) THEN 5
      ELSE IF Lt(position, Frac(3, 10)) THEN -30
      ELSE 0

\* scoreFibPosition with the position > 0.764 test made before the bands
scoreFibPosition_TrendFirst(price, f) ==
  LET range    == Sub(f.high, f.low)
      position == Div(Sub(price, f.low), range)
  IN  IF StrictEq(range, Num(0)) THEN 0
      ELSE IF Gt(position, Num(1)) THEN 25
      ELSE IF Lt(position, Num(0)) THEN -25
      ELSE IF Gt(position, Frac(764, 1000)) THEN 5
      ELSE IF Ge(position, Frac(6, 10)) /\ Le(position, Frac(65, 100)) THEN 20
      ELSE IF Ge(position, Frac(75, 100)) /\ Le(position, Frac(8, 10)) THEN 15
      ELSE IF Ge(position, Frac(35, 100)) /\ Le(position, Frac(4, 10)) THEN 10
      ELSE IF Lt(position, Frac(3, 10)) THEN -15
      ELSE 0

scoreFibPosition(price, f) ==
  LET range    == Sub(f.high, f.low)
      position == Div(Sub(price, f.low), range)
  IN  IF StrictEq(range, Num(0)) THEN 0
      ELSE IF Ge(position, Frac(6, 10)) /\ Le(position, Frac(65, 100)) THEN 20
      ELSE IF Ge(position, Frac(75, 100)) /\ Le(position, Frac(8, 10)) THEN 15
      ELSE IF Ge(position, Frac(35, 100)) /\ Le(position, Frac(4, 10)) THEN 10
      ELSE IF Gt(position, Num(1)) THEN 25
      ELSE IF Lt(position, Num(0)) THEN -25
      ELSE IF Gt(position, Frac(764, 1000)) THEN 5
      ELSE IF Lt(position, Frac(3, 10)) THEN -15
      ELSE 0

scoreSRProximity(price, fibSupport, fibResistance) ==
  IF Falsy(fibSupport) /\ Falsy(fibResistance) THEN 0
  ELSE LET distToSupport    == Div(Sub(price, fibSupport), price)
           distToResistance == Div(Sub(fibResistance, price), price)
           s == IF Falsy(fibSupport) THEN 0
                ELSE IF Le(distToSupport, Frac(2, 100)) THEN 12
                ELSE IF Le(distToSupport, Frac(5, 100)) THEN 6
                ELSE 0
           r == IF Falsy(fibResistance) THEN 0
                ELSE IF Le(distToResistance, Frac(2, 100)) THEN 12
                ELSE IF Le(distToResistance, Frac(5, 100)) THEN 6
                ELSE 0
           score == s - r
       IN  IF score > 15 THEN 15 ELSE IF score < -15 THEN -15 ELSE score

---------------------------------------------------------------------------
(* RSI                                                                     *)

\* the first loop with the losses summed signed (no Math.abs)
InitialGainLoss_Signed(prices, p) ==
  LET Body(acc, i) ==
        LET change == Sub(At(prices, i), At(prices, i - 1))
        IN  IF Gt(change, Num(0))
            THEN [gains |-> Add(acc.gains, change), losses |-> acc.losses]
            ELSE [gains |-> acc.gains, losses |-> Add(acc.losses, change)]
  IN  ForLoop(Body, [gains |-> Num(0), losses |-> Num(0)], 1, p + 1)

\* the first loop: the sums of the gains and of the losses of the first p changes
InitialGainLoss(prices, p) ==
  LET Body(acc, i) ==
        LET change == Sub(At(prices, i), At(prices, i - 1))
        IN  IF Gt(change, Num(0))
            THEN [gains |-> Add(acc.gains, change), losses |-> acc.losses]
            ELSE [gains |-> acc.gains, losses |-> Add(acc.losses, MathAbs(change))]
  IN  ForLoop(Body, [gains |-> Num(0), losses |-> Num(0)], 1, p + 1)

\* the second loop: Wilder's smoothing over the remaining changes
WilderSmooth(prices, p, first) ==
  LET Body(avg, i) ==
        LET change == Sub(At(prices, i), At(prices, i - 1))
            g == IF Gt(change, Num(0)) THEN change ELSE Num(0)
            l == IF Lt(change, Num(0)) THEN MathAbs(change) ELSE Num(0)
        IN  [avgGain |-> Div(Add(Mul(avg.avgGain, Num(p - 1)), g), Num(p)),
             avgLoss |-> Div(Add(Mul(avg.avgLoss, Num(p - 1)), l), Num(p))]
  IN  ForLoop(Body, [avgGain |-> Div(first.gains, Num(p)),
                     avgLoss |-> Div(first.losses, Num(p))], p + 1, Len(prices))

\* avgGain and avgLoss after both loops
RSIAverages(prices, p) == WilderSmooth(prices, p, InitialGainLoss(prices, p))

\* the returned value with gain and loss exchanged in rs
RSIFromAverages_Inverted(avg) ==
  IF StrictEq(avg.avgLoss, Num(0)) THEN Num(100)
  ELSE Sub(Num(100), Div(Num(100), Add(Num(1), Div(avg.avgLoss, avg.avgGain))))

\* the returned value without the avgLoss === 0 test
RSIFromAverages_Unguarded(avg) ==
  Sub(Num(100), Div(Num(100), Add(Num(1), Div(avg.avgGain, avg.avgLoss))))

\* the value calculateRSI returns for the final averages
RSIFromAverages(avg) ==
  IF StrictEq(avg.avgLoss, Num(0)) THEN Num(100)
  ELSE Sub(Num(100), Div(Num(100), Add(Num(1), Div(avg.avgGain, avg.avgLoss))))

\* calculateRSI with the length test prices.length < period
calculateRSI_ShortGuard(prices, p) ==
  IF Len(prices) < p THEN Num(50) ELSE RSIFromAverages(RSIAverages(prices, p))

calculateRSI(prices, p) ==
  IF Len(prices) < p + 1 THEN Num(50) ELSE RSIFromAverages(RSIAverages(prices, p))

\* scoreRSI with the >= 60 test ahead of the >= 70 test
scoreRSI_SixtyFirst(rsi) ==
  IF Le(rsi, Num(30)) THEN 20
  ELSE IF Le(rsi, Num(40)) THEN 10
  ELSE IF Ge(rsi, Num(60)) THEN -10
  ELSE IF Ge(rsi, Num(70)) THEN -20
  ELSE 0

scoreRSI(rsi) ==
  IF Le(rsi, Num(30)) THEN 20
  ELSE IF Le(rsi, Num(40)) THEN 10
  ELSE IF Ge(rsi, Num(70)) THEN -20
  ELSE IF Ge(rsi, Num(60)) THEN -10
  ELSE 0

---------------------------------------------------------------------------
(* MACD                                                                    *)

\* the MACD values without the offset: ema12[i] - ema26[i]
MACDValues_NoOffset(ema12, ema26) ==
  LET Body(macdValues, i) == Append(macdValues, Sub(At(ema12, i), At(ema26, i)))
  IN  ForLoop(Body, <<>>, 0, Len(ema26))

MACDValues(ema12, ema26) ==
  LET offset == Len(ema12) - Len(ema26)
      Body(macdValues, i) == Append(macdValues, Sub(At(ema12, i + offset), At(ema26, i)))
  IN  ForLoop(Body, <<>>, 0, Len(ema26))

\* the result with the histogram taken as signalLine - macdLine
MACDResult_Reversed(macdValues, signalEMA) ==
  LET macdLine   == At(macdValues, Len(macdValues) - 1)
      signalLine == IF Len(signalEMA) > 0 THEN At(signalEMA, Len(signalEMA) - 1) ELSE Num(0)
  IN  [macdLine |-> macdLine, signalLine |-> signalLine,
       histogram |-> Sub(signalLine, macdLine)]

\* macdLine, signalLine and histogram from the MACD values and their 9-period EMA
MACDResult(macdValues, signalEMA) ==
  LET macdLine   == At(macdValues, Len(macdValues) - 1)
      signalLine == IF Len(signalEMA) > 0 THEN At(signalEMA, Len(signalEMA) - 1) ELSE Num(0)
  IN  [macdLine |-> macdLine, signalLine |-> signalLine,
       histogram |-> Sub(macdLine, signalLine)]

MACDSignal(macdValues) == MACDResult(macdValues, calculateEMA(macdValues, 9))

\* the default returned only when both averages are empty (&& for ||)
MACDFromEMAs_BothEmpty(ema12, ema26) ==
  IF Len(ema12) = 0 /\ Len(ema26) = 0
  THEN [macdLine |-> Num(0), signalLine |-> Num(0), histogram |-> Num(0)]
  ELSE MACDSignal(MACDValues(ema12, ema26))

MACDFromEMAs(ema12, ema26) ==
  IF Len(ema12) = 0 \/ Len(ema26) = 0
  THEN [macdLine |-> Num(0), signalLine |-> Num(0), histogram |-> Num(0)]
  ELSE MACDSignal(MACDValues(ema12, ema26))

calculateMACD(prices) == MACDFromEMAs(calculateEMA(prices, 12), calculateEMA(prices, 26))

\* scoreMACDMomentum with >= in the first two tests
scoreMACDMomentum_NonStrict(macdLine, signalLine, histogram) ==
  LET score == (IF Ge(macdLine, signalLine) THEN 7 ELSE -7)
               + (IF Ge(histogram, Num(0)) THEN 5 ELSE -5)
               + (IF Gt(macdLine, Num(0)) /\ Gt(signalLine, Num(0)) THEN 3
                  ELSE IF Lt(macdLine, Num(0)) /\ Lt(signalLine, Num(0)) THEN -3
                  ELSE 0)
  IN  IF score > 15 THEN 15 ELSE IF score < -15 THEN -15 ELSE score

scoreMACDMomentum(macdLine, signalLine, histogram) ==
  LET score == (IF Gt(macdLine, signalLine) THEN 7 ELSE -7)
               + (IF Gt(histogram, Num(0)) THEN 5 ELSE -5)
               + (IF Gt(macdLine, Num(0)) /\ Gt(signalLine, Num(0)) THEN 3
                  ELSE IF Lt(macdLine, Num(0)) /\ Lt(signalLine, Num(0)) THEN -3
                  ELSE 0)
  IN  IF score > 15 THEN 15 ELSE IF score < -15 THEN -15 ELSE score

---------------------------------------------------------------------------
(* Composite score                                                         *)

\* labelFromScore with strict comparisons at the four thresholds
labelFromScore_Strict(score) ==
  IF score > 50 THEN "strong_buy"
  ELSE IF score > 20 THEN "buy"
  ELSE IF score < -50 THEN "strong_sell"
  ELSE IF score < -20 THEN "sell"
  ELSE "neutral"

labelFromScore(score) ==
  IF score >= 50 THEN "strong_buy"
  ELSE IF score >= 20 THEN "buy"
  ELSE IF score <= -50 THEN "strong_sell"
  ELSE IF score <= -20 THEN "sell"
  ELSE "neutral"

\* <<t, rem>> with r * scale = t * d + rem, for a power of ten scale, found a
\* decimal digit at a time so that no product leaves TLC's 32-bit integers
RECURSIVE ScaleDigits(_, _, _)
ScaleDigits(r, d, scale) ==
  IF scale = 1 THEN <<0, r>>
  ELSE LET s == ScaleDigits(r, d, scale \div 10)
       IN  <<s[1] * 10 + (s[2] * 10) \div d, (s[2] * 10) % d>>

\* Math.round(x * scale) / scale
RoundTo(x, scale) ==
  IF ~IsFinite(x) THEN x
  ELSE IF IsDouble(x)
  THEN LET Rounded(y) == IF IsDouble(y) THEN DoubleMathRound(y) ELSE y
       IN  Div(Rounded(Mul(x, Num(scale))), Num(scale))
  ELSE LET s == ScaleDigits(x[1] % x[2], x[2], scale)
       IN  Frac((x[1] \div x[2]) * scale + s[1] + (IF 2 * s[2] >= x[2] THEN 1 ELSE 0), scale)

\* the indicators generateSignals computes before scoring
IndicatorsNear(prices, price, f, near) ==
  [currentPrice |-> price,
   fib          |-> f,
   support      |-> near.support,
   resistance   |-> near.resistance,
   rsi          |-> calculateRSI(prices, 14),
   ema9         |-> getLatestEMA(prices, 9),
   ema21        |-> getLatestEMA(prices, 21),
   ema50        |-> getLatestEMA(prices, 50),
   ema200       |-> getLatestEMA(prices, 200),
   macd         |-> calculateMACD(prices)]

IndicatorsFib(prices, price, f) ==
  IndicatorsNear(prices, price, f, findNearestFibLevels(price, f))

\* the indicators with the first close taken as the current price
Indicators_FirstPrice(prices) ==
  IndicatorsFib(prices, At(prices, 0), calculateFibLevels(prices, 60))

Indicators(prices) ==
  IndicatorsFib(prices, At(prices, Len(prices) - 1), calculateFibLevels(prices, 60))

\* the five sub-scores of generateSignals
SubScores(ind) ==
  [fibScore  |-> scoreFibPosition(ind.currentPrice, ind.fib),
   rsiScore  |-> scoreRSI(ind.rsi),
   emaScore  |-> scoreEMAAlignment(ind.currentPrice, ind.ema9, ind.ema21, ind.ema50,
                                   ind.ema200),
   srScore   |-> scoreSRProximity(ind.currentPrice, ind.support, ind.resistance),
   macdScore |-> scoreMACDMomentum(ind.macd.macdLine, ind.macd.signalLine,
                                   ind.macd.histogram)]

totalScore(sub) ==
  sub.fibScore + sub.rsiScore + sub.emaScore + sub.srScore + sub.macdScore

\* the clamped total moved onto a 0..200 scale
clampedScore_Shifted(total) ==
  (IF total > 100 THEN 100 ELSE IF total < -100 THEN -100 ELSE total) + 100

\* the clamp with a module-level call counter leaking into the score: calls after
\* the first add one
clampedScore_CallCounter(total) ==
  LET counted == total + (IF op = "none" THEN 0 ELSE 1)
  IN  IF counted > 100 THEN 100 ELSE IF counted < -100 THEN -100 ELSE counted

clampedScore(total) ==
  IF total > 100 THEN 100 ELSE IF total < -100 THEN -100 ELSE total

\* the SignalResult built from the indicators and the clamped score
SignalResult(ind, score) ==
  [rsi_14         |-> RoundTo(ind.rsi, 100),
   ema_9          |-> RoundTo(ind.ema9, 100),
   ema_21         |-> RoundTo(ind.ema21, 100),
   ema_50         |-> RoundTo(ind.ema50, 100),
   ema_200        |-> RoundTo(ind.ema200, 100),
   macd_line      |-> RoundTo(ind.macd.macdLine, 10000),
   macd_signal    |-> RoundTo(ind.macd.signalLine, 10000),
   macd_histogram |-> RoundTo(ind.macd.histogram, 10000),
   fib_levels     |-> ind.fib,
   signal_score   |-> score,
   signal_label   |-> labelFromScore(score),
   nearest_fib_support    |-> ind.support,
   nearest_fib_resistance |-> ind.resistance]

ScoreAndResult(ind) == SignalResult(ind, clampedScore(totalScore(SubScores(ind))))

\* ticker and date are copied into the result unchanged and are left out
generateSignals(prices) == ScoreAndResult(Indicators(prices))

---------------------------------------------------------------------------
(* Inputs                                                                  *)

MaxPrice == 2

MaxLen == 4

MaxPeriod == 3

MaxScore == 120

MaxBase == 1

MaxStep == 2

MaxEMA == 4

MaxTail == 1

RECURSIVE SeqsUpTo(_, _)
SeqsUpTo(S, n) ==
  IF n = 0 THEN {<<>>}
  ELSE LET shorter == SeqsUpTo(S, n - 1)
       IN  shorter \cup {Append(xs, x) : xs \in {ys \in shorter : Len(ys) = n - 1}, x \in S}

\* every series of at most MaxLen prices among 0..MaxPrice
ShortSeries == SeqsUpTo({Num(i) : i \in 0..MaxPrice}, MaxLen)

\* the series of the specification's concrete scenarios 2 and 3
Scenarios == {<<Num(1), Num(2), Num(3), Num(4), Num(5)>>, <<Num(100), Num(50)>>}

\* n prices that rise by one a day from base, fall by one a day to base, or stay at base
Ramp(base, slope, n) ==
  [i \in 1..n |-> Num(IF slope > 0 THEN base + (i - 1)
                       ELSE IF slope < 0 THEN base + (n - i) ELSE base)]

RampLens == {1, 8, 14, 20, 25, 33, 49, 59, 60, 199, 200}

\* a ramp followed by at most MaxTail closes, each within MaxStep of the one before
RECURSIVE WithTail(_, _)
WithTail(S, n) ==
  IF n = 0 THEN S
  ELSE LET shorter == WithTail(S, n - 1)
       IN  shorter \cup
           {Append(xs, Num(xs[Len(xs)][1] + d)) :
              xs \in shorter, d \in {e \in -MaxStep..MaxStep : TRUE}}

LongSeries ==
  {xs \in WithTail({Ramp(b, s, n) : b \in 1..MaxBase, s \in {-1, 0, 1}, n \in RampLens},
                   MaxTail) :
     \A i \in 1..Len(xs) : xs[i][1] > 0}

---------------------------------------------------------------------------
(* calculateEMA, calculateFibLevels and findNearestFibLevels applied to     *)
(* short series                                                            *)

Init ==
  /\ closePrices \in ShortSeries \cup Scenarios
  /\ op = "none"
  /\ arg = 0
  /\ ret = 0

DoCalculateEMA ==
  /\ op = "none"
  /\ \E p \in 1..MaxPeriod :
       /\ arg' = p
       /\ ret' = calculateEMA(closePrices, p)
  /\ op' = "calculateEMA"
  /\ UNCHANGED closePrices

DoCalculateFibLevels ==
  /\ op = "none"
  /\ \E lookback \in 0..MaxLen :
       /\ arg' = lookback
       /\ ret' = calculateFibLevels(closePrices, lookback)
  /\ op' = "calculateFibLevels"
  /\ UNCHANGED closePrices

\* the prices findNearestFibLevels is tried on: around and on the levels
NearestPrices(f) ==
  {Num(i) : i \in -1..(MaxPrice + 1)} \cup {FibCandidates(f)[k] : k \in 1..7}

\* findNearestFibLevels applied to the record calculateFibLevels returned
DoFindNearestFibLevels ==
  /\ op = "calculateFibLevels"
  /\ Len(closePrices) > 0
  /\ \E price \in NearestPrices(ret) :
       /\ arg' = [currentPrice |-> price, fib |-> ret]
       /\ ret' = findNearestFibLevels(price, ret)
  /\ op' = "findNearestFibLevels"
  /\ UNCHANGED closePrices

Next ==
  \/ DoCalculateEMA
  \/ DoCalculateFibLevels
  \/ DoFindNearestFibLevels

Spec == Init /\ [][Next]_vars

---------------------------------------------------------------------------
(* calculateRSI applied to short series and to price histories             *)

InitRSI ==
  /\ closePrices \in ShortSeries \cup LongSeries
  /\ op = "none"
  /\ arg = 0
  /\ ret = 0

DoCalculateRSI ==
  /\ op = "none"
  /\ \E p \in 1..MaxPeriod :
       /\ arg' = p
       /\ ret' = calculateRSI(closePrices, p)
  /\ op' = "calculateRSI"
  /\ UNCHANGED closePrices

\* the call generateSignals makes: period 14
DoCalculateRSI14 ==
  /\ op = "none"
  /\ arg' = 14
  /\ ret' = calculateRSI(closePrices, 14)
  /\ op' = "calculateRSI"
  /\ UNCHANGED closePrices

NextRSI ==
  \/ DoCalculateRSI
  \/ DoCalculateRSI14

SpecRSI == InitRSI /\ [][NextRSI]_vars

---------------------------------------------------------------------------
(* calculateMACD applied to short series and to price histories            *)

InitMACD ==
  /\ closePrices \in ShortSeries \cup LongSeries
  /\ op = "none"
  /\ arg = 0
  /\ ret = 0

DoCalculateMACD ==
  /\ op = "none"
  /\ ret' = calculateMACD(closePrices)
  /\ op' = "calculateMACD"
  /\ UNCHANGED <<closePrices, arg>>

NextMACD == DoCalculateMACD

SpecMACD == InitMACD /\ [][NextMACD]_vars

---------------------------------------------------------------------------
(* labelFromScore applied to scores                                        *)

InitLabel ==
  /\ closePrices = <<>>
  /\ op = "none"
  /\ arg \in -MaxScore..MaxScore
  /\ ret = 0

DoLabelFromScore ==
  /\ op = "none"
  /\ ret' = labelFromScore(arg)
  /\ op' = "labelFromScore"
  /\ UNCHANGED <<closePrices, arg>>

NextLabel == DoLabelFromScore

SpecLabel == InitLabel /\ [][NextLabel]_vars

---------------------------------------------------------------------------
(* generateSignals applied to price histories                              *)

InitEngine ==
  /\ closePrices \in LongSeries
  /\ op = "none"
  /\ arg = 0
  /\ ret = 0

DoGenerateSignals ==
  /\ op = "none"
  /\ ret' = generateSignals(closePrices)
  /\ op' = "generateSignals"
  /\ UNCHANGED <<closePrices, arg>>

NextEngine == DoGenerateSignals

SpecEngine == InitEngine /\ [][NextEngine]_vars

---------------------------------------------------------------------------
(* generateSignals applied to constant series of decimal prices held as     *)
(* doubles, and to ramps that end on a jump                                 *)

MaxTenths == 10

MaxFlatLen == 16

\* the doubles of 0.1, 0.2, ..., as parseFloat gives them
FlatPrices == {ToDouble(Frac(k, 10)) : k \in 1..MaxTenths}

FlatSeries == {[i \in 1..n |-> price] : price \in FlatPrices, n \in 1..MaxFlatLen}

InitDoubles ==
  /\ closePrices \in FlatSeries
  /\ op = "none"
  /\ arg = 0
  /\ ret = 0

SpecDoubles == InitDoubles /\ [][NextEngine]_vars

MaxJump == 3

JumpLens == {7, 8, 19, 20, 48, 49, 60}

\* n closes rising, falling or flat from 10, then a last close of 1, 20, 40 or 80
JumpSeries ==
  {Append(Ramp(10, slope, n), Num(last)) :
     slope \in {-1, 0, 1}, n \in JumpLens, last \in {1} \cup {10 * (2 ^ j) : j \in 1..MaxJump}}
  \cup {Ramp(10, slope, n) : slope \in {-1, 0, 1}, n \in JumpLens}

InitJumps ==
  /\ closePrices \in JumpSeries
  /\ op = "none"
  /\ arg = 0
  /\ ret = 0

SpecJumps == InitJumps /\ [][NextEngine]_vars

---------------------------------------------------------------------------
(* The exported functions called on a caller's array, generateSignals twice *)

\* the receiver xs after xs.splice(start), which removes the elements from start on
AfterSplice(xs, start) ==
  LET from == IF start < 0 THEN (IF Len(xs) + start < 0 THEN 0 ELSE Len(xs) + start)
              ELSE (IF start > Len(xs) THEN Len(xs) ELSE start)
  IN  SubSeq(xs, 1, from)

\* the receiver xs after xs.slice(start): slice copies and leaves xs as it was.
\* It is the only method the engine calls on a price array; every other access
\* is a read of prices[i] or prices.length.
AfterSlice(xs, start) == xs

IndicatorCalls ==
  {"calculateEMA", "calculateRSI", "calculateMACD", "calculateFibLevels",
   "findNearestFibLevels"}

\* what a call of an exported indicator function returns, with the arguments
\* generateSignals gives it
CallResult(f, prices) ==
  CASE f = "calculateEMA"         -> calculateEMA(prices, 9)
    [] f = "calculateRSI"         -> calculateRSI(prices, 14)
    [] f = "calculateMACD"        -> calculateMACD(prices)
    [] f = "calculateFibLevels"   -> calculateFibLevels(prices, 60)
    [] f = "findNearestFibLevels" ->
         findNearestFibLevels(At(prices, Len(prices) - 1), calculateFibLevels(prices, 60))

\* the caller's array after the call
PricesAfter(f, prices) ==
  IF f \in {"calculateFibLevels", "generateSignals"} THEN AfterSlice(prices, -60)
  ELSE prices

Tickers == {"AAPL", "MSFT"}

Dates == {"2025-01-01"}

\* the SignalResult with the ticker and date fields generateSignals copies in
generateSignalsFor(ticker, prices, date) ==
  [ticker |-> ticker, date |-> date, fields |-> generateSignals(prices)]

CallSeries ==
  ShortSeries \cup Scenarios \cup {Ramp(1, s, n) : s \in {-1, 0, 1}, n \in RampLens}

InitCalls ==
  /\ closePrices \in CallSeries
  /\ op = "none"
  /\ arg = 0
  /\ ret = 0

DoCallIndicator ==
  /\ op = "none"
  /\ \E f \in IndicatorCalls :
       /\ op' = f
       /\ ret' = CallResult(f, closePrices)
       /\ closePrices' = PricesAfter(f, closePrices)
  /\ UNCHANGED arg

DoCallGenerateSignals ==
  /\ op = "none"
  /\ \E ticker \in Tickers, date \in Dates :
       /\ arg' = [ticker |-> ticker, date |-> date]
       /\ ret' = generateSignalsFor(ticker, closePrices, date)
  /\ closePrices' = PricesAfter("generateSignals", closePrices)
  /\ op' = "generateSignals"

\* a second call with the arguments of the first; arg keeps the first result
DoCallGenerateSignalsAgain ==
  /\ op = "generateSignals"
  /\ arg' = [ticker |-> arg.ticker, date |-> arg.date, first |-> ret]
  /\ ret' = generateSignalsFor(arg.ticker, closePrices, arg.date)
  /\ closePrices' = PricesAfter("generateSignals", closePrices)
  /\ op' = "generateSignalsAgain"

NextCalls ==
  \/ DoCallIndicator
  \/ DoCallGenerateSignals
  \/ DoCallGenerateSignalsAgain

SpecCalls == InitCalls /\ [][NextCalls]_vars

---------------------------------------------------------------------------
(* The five sub-score functions applied to grids of arguments               *)

\* positions, in thousandths of the range, on and next to every threshold of
\* scoreFibPosition
PositionGrid ==
  {-1, 0, 1, 299, 300, 301, 349, 350, 351, 399, 400, 401, 599, 600, 601, 649, 650, 651,
   749, 750, 751, 764, 765, 799, 800, 801, 999, 1000, 1001}

\* records with a positive, a zero and a negative range
ScoreRecords == {FibFromHighLow(Num(h), Num(l)) : h \in {0, 1000, 2000}, l \in {0, 1000, 2000}}

\* the price at k thousandths of the range above low (k above low for a flat record)
PriceAt(f, k) ==
  IF f.high = f.low THEN Add(f.low, Num(k))
  ELSE Add(f.low, Mul(Sub(f.high, f.low), Frac(k, 1000)))

InitScores ==
  /\ closePrices = <<>>
  /\ op = "none"
  /\ arg = 0
  /\ ret = 0

DoScoreFibPosition ==
  /\ op = "none"
  /\ \E f \in ScoreRecords, k \in PositionGrid :
       /\ arg' = [price |-> PriceAt(f, k), fib |-> f]
       /\ ret' = scoreFibPosition(PriceAt(f, k), f)
  /\ op' = "scoreFibPosition"
  /\ UNCHANGED closePrices

\* the price and the four averages among 0..MaxEMA
DoScoreEMAAlignment ==
  /\ op = "none"
  /\ \E price, ema9, ema21, ema50, ema200 \in {Num(i) : i \in 0..MaxEMA} :
       /\ arg' = [price |-> price, ema9 |-> ema9, ema21 |-> ema21, ema50 |-> ema50,
                  ema200 |-> ema200]
       /\ ret' = scoreEMAAlignment(price, ema9, ema21, ema50, ema200)
  /\ op' = "scoreEMAAlignment"
  /\ UNCHANGED closePrices

\* levels on and next to the 2% and 5% distances from a price of 100 or -100,
\* the level 0, and no level
SRLevels ==
  {Null} \cup {Num(v) : v \in {0, 94, 95, 96, 98, 99, 100, 101, 102, 103, 105, 106}}
         \cup {Num(-v) : v \in {95, 98, 100, 102, 105}}

SRPrices == {Num(100), Num(-100)}

DoScoreSRProximity ==
  /\ op = "none"
  /\ \E price \in SRPrices, fibSupport \in SRLevels, fibResistance \in SRLevels :
       /\ arg' = [price |-> price, support |-> fibSupport, resistance |-> fibResistance]
       /\ ret' = scoreSRProximity(price, fibSupport, fibResistance)
  /\ op' = "scoreSRProximity"
  /\ UNCHANGED closePrices

MomentumValues == {Num(i) : i \in -MaxStep..MaxStep}

\* the three arguments chosen independently (calculateMACD passes
\* histogram = macdLine - signalLine, one of the cases)
DoScoreMACDMomentum ==
  /\ op = "none"
  /\ \E macdLine \in MomentumValues, signalLine \in MomentumValues,
        histogram \in MomentumValues :
       /\ arg' = [macdLine |-> macdLine, signalLine |-> signalLine, histogram |-> histogram]
       /\ ret' = scoreMACDMomentum(macdLine, signalLine, histogram)
  /\ op' = "scoreMACDMomentum"
  /\ UNCHANGED closePrices

\* 0, 0.5, 1, ..., 100
RSIGrid == {Frac(k, 2) : k \in 0..200}

DoScoreRSI ==
  /\ op = "none"
  /\ \E rsi \in RSIGrid :
       /\ arg' = rsi
       /\ ret' = scoreRSI(rsi)
  /\ op' = "scoreRSI"
  /\ UNCHANGED closePrices

NextScores ==
  \/ DoScoreFibPosition
  \/ DoScoreEMAAlignment
  \/ DoScoreSRProximity
  \/ DoScoreMACDMomentum
  \/ DoScoreRSI

SpecScores == InitScores /\ [][NextScores]_vars

---------------------------------------------------------------------------
(* The nightly cron request: middleware, secret check, tickers, price       *)
(* fetches and the loop over the tickers                                    *)

\* JavaScript values of the request and the environment: undefined, null, or a
\* string, a string being the sequence of its pieces ('' is <<>>)
Undefined == [t |-> "undefined"]

JSNull == [t |-> "null"]

Str(s) == [t |-> "string", s |-> s]

Nullish(v) == v.t \in {"undefined", "null"}

FalsyValue(v) == Nullish(v) \/ v = Str(<<>>)

\* a || b
JSOr(a, b) == IF FalsyValue(a) THEN b ELSE a

\* s.replace(piece, ''): the first occurrence is removed
RECURSIVE ReplaceFirst(_, _)
ReplaceFirst(s, piece) ==
  IF s = <<>> THEN <<>>
  ELSE IF Head(s) = piece THEN Tail(s)
  ELSE <<Head(s)>> \o ReplaceFirst(Tail(s), piece)

\* req.headers.get('authorization')?.replace('Bearer ', '')
BearerToken(authorization) ==
  IF Nullish(authorization) THEN Undefined
  ELSE Str(ReplaceFirst(authorization.s, "Bearer "))

\* searchParams.get('secret') || the bearer token
SuppliedSecret(request) == JSOr(request.secretParam, BearerToken(request.authorization))

\* !(secret !== process.env.CRON_SECRET)
SecretAccepted(request, env) == SuppliedSecret(request) = env.CRON_SECRET

CronPath == <<"api", "signals", "cron">>

Pathnames == {CronPath, <<"api", "holdings">>, <<"login">>}

StartsWith(path, prefix) ==
  /\ Len(prefix) <= Len(path)
  /\ SubSeq(path, 1, Len(prefix)) = prefix

\* "redirect" to /login or "next"
middleware(pathname, user) ==
  LET isPublicRoute    == pathname = <<"login">> \/ StartsWith(pathname, <<"auth">>)
      isProtectedRoute ==
        /\ ~isPublicRoute
        /\ \/ pathname = <<>>
           \/ \E first \in {"setup"} : StartsWith(pathname, <<first>>)
           \/ \E second \in {"holdings", "trades", "prices", "import", "platforms", "summary"} :
                StartsWith(pathname, <<"api", second>>)
      isCronRoute      == StartsWith(pathname, CronPath)
  IN  IF isProtectedRoute /\ ~user /\ ~isCronRoute THEN "redirect" ELSE "next"

SecretParams == {JSNull, Str(<<>>), Str(<<"s1">>), Str(<<"s2">>)}

AuthorizationHeaders ==
  {JSNull, Str(<<"Bearer ", "s1">>), Str(<<"Bearer ", "s2">>), Str(<<"s1">>), Str(<<"Bearer ">>)}

CronSecrets == {Undefined, Str(<<>>), Str(<<"s1">>)}

MaxRows == 1

TickerRows == {"aapl", "AAPL", "MSFT"}

toUpperCase(ticker) == IF ticker = "aapl" THEN "AAPL" ELSE ticker

\* the rows of a table, or the error of the query
TableReads == [error : {FALSE}, rows : SeqsUpTo(TickerRows, MaxRows)] \cup {[error |-> TRUE, rows |-> <<>>]}

\* tickerSet.add for each row, in insertion order
RECURSIVE AddAll(_, _)
AddAll(tickers, rows) ==
  IF rows = <<>> THEN tickers
  ELSE LET t == toUpperCase(Head(rows))
       IN  AddAll(IF \E k \in 1..Len(tickers) : tickers[k] = t THEN tickers
                  ELSE Append(tickers, t),
                  Tail(rows))

PriceRow(close) == [close |-> Num(close)]

\* what fetchPriceHistory returns: [] when both sources fail or Alpha Vantage
\* has an empty time series, else the rows oldest to newest
Histories == {<<>>, <<PriceRow(0)>>, <<PriceRow(1), PriceRow(2)>>}

\* results.set(ticker, prices) only when prices.length > 0
fetchBatchPrices(tickers, fetched) ==
  LET kept == {tickers[k] : k \in {j \in 1..Len(tickers) : Len(fetched[tickers[j]]) > 0}}
  IN  [t \in kept |-> fetched[t]]

extractClosePrices(prices) == [k \in 1..Len(prices) |-> prices[k].close]

getLatestClose(prices) == IF Len(prices) = 0 THEN Null ELSE prices[Len(prices)].close

\* where a database call of the loop body rejects
Throws == {"none", "daily_prices", "signal_history", "holdings"}

\* results.push({ ticker, status: 'ok', signal_label, signal_score })
OkEntry(ticker, signal) ==
  [ticker |-> ticker, status |-> "ok", signal_label |-> signal.fields.signal_label,
   signal_score |-> signal.fields.signal_score]

\* the loop body without the guard's continue: the body runs on the missing
\* history and prices.map throws
ProcessTicker_NoContinue(ticker, priceMap, throwAt, today) ==
  IF ticker \notin DOMAIN priceMap
  THEN [entries |-> <<[ticker |-> ticker, status |-> "no_data"],
                      [ticker |-> ticker, status |-> "error"]>>,
        calls |-> <<>>, effects |-> <<>>]
  ELSE LET closes == extractClosePrices(priceMap[ticker])
           signal == generateSignalsFor(ticker, closes, today)
       IN  [entries |-> <<OkEntry(ticker, signal)>>,
            calls   |-> <<[ticker |-> ticker, closePrices |-> closes]>>,
            effects |-> <<"upsert daily_prices", "upsert signal_history">>]

\* one iteration of `for (const ticker of tickers)`: the entries pushed to
\* results, the generateSignals calls made and the database calls started
ProcessTicker(ticker, priceMap, throwAt, today) ==
  IF ticker \notin DOMAIN priceMap \/ Len(priceMap[ticker]) = 0
  THEN [entries |-> <<[ticker |-> ticker, status |-> "no_data"]>>,
        calls |-> <<>>, effects |-> <<>>]
  ELSE LET prices      == priceMap[ticker]
           closes      == extractClosePrices(prices)
           signal      == generateSignalsFor(ticker, closes, today)
           latestPrice == getLatestClose(prices)
           failed      == <<[ticker |-> ticker, status |-> "error"]>>
           call        == <<[ticker |-> ticker, closePrices |-> closes]>>
       IN  IF throwAt = "daily_prices"
           THEN [entries |-> failed, calls |-> <<>>, effects |-> <<"upsert daily_prices">>]
           ELSE IF throwAt = "signal_history"
           THEN [entries |-> failed, calls |-> call,
                 effects |-> <<"upsert daily_prices", "upsert signal_history">>]
           ELSE IF throwAt = "holdings" /\ ~Falsy(latestPrice)
           THEN [entries |-> failed, calls |-> call,
                 effects |-> <<"upsert daily_prices", "upsert signal_history",
                               "update holdings">>]
           ELSE [entries |-> <<OkEntry(ticker, signal)>>,
                 calls   |-> call,
                 effects |-> <<"upsert daily_prices", "upsert signal_history">>
                             \o (IF Falsy(latestPrice) THEN <<>> ELSE <<"update holdings">>)]

\* the handler's locals at its first line
HandlerStart ==
  [tickers |-> <<>>, fetched |-> <<>>, priceMap |-> <<>>, i |-> 0, results |-> <<>>,
   calls |-> <<>>, effects |-> <<>>, status |-> 0]

InitCron ==
  /\ closePrices = <<>>
  /\ op = "none"
  /\ arg = 0
  /\ ret = 0

\* a request passes the middleware or is redirected to /login
DoMiddleware ==
  /\ op = "none"
  /\ \E pathname \in Pathnames, user \in BOOLEAN, secretParam \in SecretParams,
        authorization \in AuthorizationHeaders, secret \in CronSecrets :
       /\ arg' = [request |-> [pathname |-> pathname, user |-> user,
                               secretParam |-> secretParam,
                               authorization |-> authorization],
                  env |-> [CRON_SECRET |-> secret]]
       /\ op' = IF middleware(pathname, user) = "redirect" THEN "redirect"
                ELSE IF pathname = CronPath THEN "GET"
                ELSE "other route"
  /\ ret' = HandlerStart
  /\ UNCHANGED closePrices

\* GET: the secret check
DoVerifySecret ==
  /\ op = "GET"
  /\ IF SecretAccepted(arg.request, arg.env)
     THEN /\ op' = "tickers"
          /\ ret' = ret
     ELSE /\ op' = "done"
          /\ ret' = [ret EXCEPT !.status = 401]
  /\ UNCHANGED <<closePrices, arg>>

\* the holdings and watchlist queries and the deduplicated tickers
DoReadTickers ==
  /\ op = "tickers"
  /\ \E holdings \in TableReads, watchlist \in TableReads :
       LET tickers == AddAll(AddAll(<<>>, holdings.rows), watchlist.rows)
       IN  IF holdings.error
           THEN /\ op' = "done"
                /\ ret' = [ret EXCEPT !.status = 500, !.effects = <<"select holdings">>]
           ELSE IF watchlist.error
           THEN /\ op' = "done"
                /\ ret' = [ret EXCEPT !.status = 500,
                                      !.effects = <<"select holdings", "select watchlist">>]
           ELSE /\ op' = IF Len(tickers) = 0 THEN "done" ELSE "fetch"
                /\ ret' = [ret EXCEPT !.tickers = tickers,
                                      !.status = IF Len(tickers) = 0 THEN 200 ELSE 0,
                                      !.effects = <<"select holdings", "select watchlist">>]
  /\ UNCHANGED <<closePrices, arg>>

\* fetchBatchPrices(tickers), each fetchPriceHistory returning any history
DoFetchBatchPrices ==
  /\ op = "fetch"
  /\ \E fetched \in [{ret.tickers[k] : k \in 1..Len(ret.tickers)} -> Histories] :
       ret' = [ret EXCEPT !.fetched = fetched,
                          !.priceMap = fetchBatchPrices(ret.tickers, fetched),
                          !.effects = Append(@, "fetch prices")]
  /\ op' = "loop"
  /\ UNCHANGED <<closePrices, arg>>

\* the handler's locals after an iteration
AfterTicker(h, done) ==
  [h EXCEPT !.i = @ + 1,
            !.results = @ \o done.entries,
            !.calls = @ \o done.calls,
            !.effects = @ \o done.effects]

\* one iteration of the loop over the tickers
DoProcessTicker ==
  /\ op = "loop"
  /\ ret.i < Len(ret.tickers)
  /\ \E throwAt \in Throws, today \in Dates :
       ret' = AfterTicker(ret, ProcessTicker(ret.tickers[ret.i + 1], ret.priceMap,
                                             throwAt, today))
  /\ closePrices' = IF Len(ret'.calls) = Len(ret.calls) THEN closePrices
                    ELSE ret'.calls[Len(ret'.calls)].closePrices
  /\ UNCHANGED <<op, arg>>

\* the response after the loop
DoRespond ==
  /\ op = "loop"
  /\ ret.i = Len(ret.tickers)
  /\ ret' = [ret EXCEPT !.status = 200]
  /\ op' = "done"
  /\ UNCHANGED <<closePrices, arg>>

NextCron ==
  \/ DoMiddleware
  \/ DoVerifySecret
  \/ DoReadTickers
  \/ DoFetchBatchPrices
  \/ DoProcessTicker
  \/ DoRespond

SpecCron == InitCron /\ [][NextCron]_vars

---------------------------------------------------------------------------
(* Properties                                                              *)

Labels == {"strong_buy", "buy", "neutral", "sell", "strong_sell"}

\* C1: the signal_score generateSignals returns for a non-empty series is an
\* integer between -100 and 100 inclusive
C1_ScoreInRange ==
  (op = "generateSignals" /\ Len(closePrices) > 0) =>
    (ret.signal_score \in Int /\ ret.signal_score >= -100 /\ ret.signal_score <= 100)

C1_Witness ==
  /\ op = "generateSignals"
  /\ Len(closePrices) >= 200
  /\ ret.signal_score \in Int
  /\ ret.signal_score # 0

\* the label the threshold table gives a score
TableLabel(score) ==
  CASE score >= 50                  -> "strong_buy"
    [] score >= 20 /\ score < 50    -> "buy"
    [] score > -20 /\ score < 20    -> "neutral"
    [] score > -50 /\ score <= -20  -> "sell"
    [] score <= -50                 -> "strong_sell"

LabelRank(label) ==
  CASE label = "strong_sell" -> 1
    [] label = "sell"        -> 2
    [] label = "neutral"     -> 3
    [] label = "buy"         -> 4
    [] label = "strong_buy"  -> 5

\* C2: the label is the one the threshold table gives the score, is one of the
\* five labels, and is monotone: no lower score has a higher-ranked label
C2_LabelTable ==
  op = "labelFromScore" =>
    /\ ret = TableLabel(arg)
    /\ ret \in Labels
    /\ \A lower \in -MaxScore..arg :
         LabelRank(labelFromScore(lower)) <= LabelRank(ret)

C2_Witness == op = "labelFromScore" /\ arg = 20 /\ ret = "buy"

\* the numeric fields of a SignalResult other than the score
NumericFields(r) ==
  {r.rsi_14, r.ema_9, r.ema_21, r.ema_50, r.ema_200,
   r.macd_line, r.macd_signal, r.macd_histogram,
   r.fib_levels.high, r.fib_levels.low, r.fib_levels.level_236, r.fib_levels.level_382,
   r.fib_levels.level_500, r.fib_levels.level_618, r.fib_levels.level_786}

\* C3: for a non-empty series of positive closes generateSignals returns a result
\* whose numeric fields are all finite numbers (the nearest levels finite or null),
\* with RSI 50 when there are fewer than 15 closes and MACD zeros when there are
\* fewer than 26
C3_AllFieldsFinite ==
  (op = "generateSignals" /\ Len(closePrices) > 0) =>
    /\ \A x \in NumericFields(ret) : IsFinite(x)
    /\ ret.signal_score \in Int
    /\ ret.signal_label \in Labels
    /\ ret.nearest_fib_support = Null \/ IsFinite(ret.nearest_fib_support)
    /\ ret.nearest_fib_resistance = Null \/ IsFinite(ret.nearest_fib_resistance)
    /\ Len(closePrices) < 15 => ret.rsi_14 = Num(50)
    /\ Len(closePrices) < 26 =>
         (ret.macd_line = Num(0) /\ ret.macd_signal = Num(0) /\ ret.macd_histogram = Num(0))

C3_Witness ==
  /\ op = "generateSignals"
  /\ Len(closePrices) = 2
  /\ ret.rsi_14 = Num(50)
  /\ ret.macd_line = Num(0)
  /\ ret.ema_200 = closePrices[2]

\* C4: calculateRSI returns a value between 0 and 100 inclusive
C4_RSIInRange ==
  op = "calculateRSI" => (Ge(ret, Num(0)) /\ Le(ret, Num(100)))

C4_Witness ==
  /\ op = "calculateRSI"
  /\ arg = 14
  /\ Len(closePrices) >= 15
  /\ Gt(ret, Num(0))
  /\ Lt(ret, Num(100))

\* C5: for a period of at least 1 the list calculateEMA returns has
\* max(0, length - period + 1) values, so it is empty exactly when the series is
\* shorter than the period
C5_EMALength ==
  (op = "calculateEMA" /\ arg >= 1) =>
    /\ Len(ret) = (IF Len(closePrices) - arg + 1 > 0 THEN Len(closePrices) - arg + 1 ELSE 0)
    /\ (Len(ret) = 0) <=> (Len(closePrices) < arg)

C5_Witness ==
  /\ op = "calculateEMA"
  /\ arg = 2
  /\ Len(closePrices) = 4
  /\ Len(ret) = 3

\* the sum of the first n prices of a series of integers
RECURSIVE PrefixSum(_, _)
PrefixSum(xs, n) == IF n = 0 THEN 0 ELSE PrefixSum(xs, n - 1) + xs[n][1]

\* C6: the first EMA value is the arithmetic mean of the first period prices and
\* each later value is prev + (price - prev) * 2 / (period + 1) for the price
\* period - 1 + k places into the series; period 3 over 1,2,3,4,5 gives 2,3,4
C6_EMARecurrence ==
  (op = "calculateEMA" /\ Len(ret) > 0) =>
    /\ ret[1] = Frac(PrefixSum(closePrices, arg), arg)
    /\ \A k \in 1..(Len(ret) - 1) :
         ret[k + 1] = Add(ret[k], Div(Mul(Sub(closePrices[arg + k], ret[k]), Num(2)),
                                      Num(arg + 1)))
    /\ (closePrices = <<Num(1), Num(2), Num(3), Num(4), Num(5)>> /\ arg = 3) =>
         ret = <<Num(2), Num(3), Num(4)>>

C6_Witness ==
  /\ op = "calculateEMA"
  /\ arg = 3
  /\ closePrices = <<Num(1), Num(2), Num(3), Num(4), Num(5)>>
  /\ ret = <<Num(2), Num(3), Num(4)>>

\* C7: for a non-empty series the levels are ordered
\* high >= level_236 >= level_382 >= level_500 >= level_618 >= level_786 >= low
C7_FibOrdered ==
  (op = "calculateFibLevels" /\ Len(closePrices) > 0) =>
    /\ Ge(ret.high, ret.level_236)
    /\ Ge(ret.level_236, ret.level_382)
    /\ Ge(ret.level_382, ret.level_500)
    /\ Ge(ret.level_500, ret.level_618)
    /\ Ge(ret.level_618, ret.level_786)
    /\ Ge(ret.level_786, ret.low)

C7_Witness ==
  /\ op = "calculateFibLevels"
  /\ Len(closePrices) > 0
  /\ Gt(ret.high, ret.level_236)
  /\ Gt(ret.level_236, ret.level_382)
  /\ Gt(ret.level_618, ret.level_786)
  /\ Gt(ret.level_786, ret.low)

\* the last min(w, length) prices of a series
LastWindow(prices, w) ==
  {prices[i] : i \in (Len(prices) - (IF w < Len(prices) THEN w ELSE Len(prices)) + 1)..Len(prices)}

\* high - (high - low) * thousandths / 1000 for integers high and low
LevelAt(high, low, thousandths) ==
  Frac(1000 * high[1] - thousandths * (high[1] - low[1]), 1000)

\* C8: for a window w >= 1 over a non-empty series high and low are the greatest
\* and the least of the last min(w, length) prices and each level is
\* high - (high - low) * ratio for the ratios 0.236, 0.382, 0.5, 0.618, 0.786, so
\* a flat window makes all seven values equal
C8_FibWindowAndFormula ==
  (op = "calculateFibLevels" /\ Len(closePrices) > 0 /\ arg >= 1) =>
    LET window == LastWindow(closePrices, arg)
    IN  /\ ret.high \in window
        /\ \A x \in window : Le(x, ret.high)
        /\ ret.low \in window
        /\ \A x \in window : Le(ret.low, x)
        /\ ret.level_236 = LevelAt(ret.high, ret.low, 236)
        /\ ret.level_382 = LevelAt(ret.high, ret.low, 382)
        /\ ret.level_500 = LevelAt(ret.high, ret.low, 500)
        /\ ret.level_618 = LevelAt(ret.high, ret.low, 618)
        /\ ret.level_786 = LevelAt(ret.high, ret.low, 786)
        /\ ret.high = ret.low =>
             \A k \in 1..7 : FibCandidates(ret)[k] = ret.high

C8_Witness ==
  /\ op = "calculateFibLevels"
  /\ arg = 2
  /\ ret.high = Num(100)
  /\ ret.low = Num(50)
  /\ ret.level_500 = Num(75)
  /\ ret.level_618 = Frac(691, 10)

\* C9: a support that is not null is at most the current price and a resistance
\* that is not null is at least the current price
C9_SupportBelowResistanceAbove ==
  op = "findNearestFibLevels" =>
    /\ ret.support # Null => Le(ret.support, arg.currentPrice)
    /\ ret.resistance # Null => Ge(ret.resistance, arg.currentPrice)

C9_Witness ==
  /\ op = "findNearestFibLevels"
  /\ ret.support # Null
  /\ ret.resistance # Null
  /\ Lt(ret.support, arg.currentPrice)
  /\ Gt(ret.resistance, arg.currentPrice)

\* the candidate levels at or below, and at or above, a price
CandidatesBelow(price, f) == {c \in {FibCandidates(f)[k] : k \in 1..7} : Le(c, price)}

CandidatesAbove(price, f) == {c \in {FibCandidates(f)[k] : k \in 1..7} : Ge(c, price)}

\* C10: support is the greatest candidate at or below the current price and is
\* null exactly when there is none; resistance is the least candidate at or above
\* it and is null exactly when there is none; a candidate equal to the price is
\* returned as both
C10_NearestIsGreatestAndLeast ==
  op = "findNearestFibLevels" =>
    LET below == CandidatesBelow(arg.currentPrice, arg.fib)
        above == CandidatesAbove(arg.currentPrice, arg.fib)
    IN  /\ (ret.support = Null) <=> (below = {})
        /\ ret.support # Null =>
             (ret.support \in below /\ \A c \in below : Le(c, ret.support))
        /\ (ret.resistance = Null) <=> (above = {})
        /\ ret.resistance # Null =>
             (ret.resistance \in above /\ \A c \in above : Ge(c, ret.resistance))
        /\ arg.currentPrice \in below \cap above =>
             (ret.support = arg.currentPrice /\ ret.resistance = arg.currentPrice)

\* C11: calculateRSI returns exactly 50 for every series of fewer than
\* period + 1 prices; with period + 1 prices or more the value is the one the
\* averages give, so 50 is returned only when avgGain equals a non-zero avgLoss
C11_RSIFallback ==
  op = "calculateRSI" =>
    /\ Len(closePrices) < arg + 1 => ret = Num(50)
    /\ Len(closePrices) >= arg + 1 =>
         LET avg == RSIAverages(closePrices, arg)
         IN  /\ IsFinite(ret)
             /\ ret = Num(50) => (avg.avgGain = avg.avgLoss /\ avg.avgLoss # Num(0))
             /\ avg.avgLoss = Num(0) => ret = Num(100)

C11_Witness ==
  /\ op = "calculateRSI"
  /\ arg = 14
  /\ Len(closePrices) = 14
  /\ closePrices[1] # closePrices[14]
  /\ ret = Num(50)

StrictlyIncreasing(xs) == \A i \in 1..(Len(xs) - 1) : Lt(xs[i], xs[i + 1])

StrictlyDecreasing(xs) == \A i \in 1..(Len(xs) - 1) : Gt(xs[i], xs[i + 1])

\* C12: for a strictly increasing series longer than the period calculateRSI
\* returns 100 and for a strictly decreasing one it returns 0; 1,2,...,15 with
\* period 14 gives 100
C12_RSIMonotoneSeries ==
  (op = "calculateRSI" /\ Len(closePrices) > arg) =>
    /\ StrictlyIncreasing(closePrices) => ret = Num(100)
    /\ StrictlyDecreasing(closePrices) => ret = Num(0)
    /\ (arg = 14 /\ closePrices = Ramp(1, 1, 15)) => ret = Num(100)

C12_Witness ==
  /\ op = "calculateRSI"
  /\ arg = 14
  /\ closePrices = Ramp(1, 1, 15)
  /\ ret = Num(100)

Flat(xs) == \A i \in 1..Len(xs) : xs[i] = xs[1]

\* C13: for a flat series calculateRSI returns 50 when there are fewer than
\* period + 1 prices and otherwise 100, with both averages 0 and no quotient by
\* zero taken
C13_RSIFlatSeries ==
  (op = "calculateRSI" /\ Flat(closePrices)) =>
    /\ Len(closePrices) < arg + 1 => ret = Num(50)
    /\ Len(closePrices) >= arg + 1 =>
         /\ ret = Num(100)
         /\ RSIAverages(closePrices, arg) = [avgGain |-> Num(0), avgLoss |-> Num(0)]

C13_Witness ==
  /\ op = "calculateRSI"
  /\ arg = 14
  /\ Len(closePrices) >= 15
  /\ Flat(closePrices)
  /\ ret = Num(100)

MACDZeros == [macdLine |-> Num(0), signalLine |-> Num(0), histogram |-> Num(0)]

\* the default is returned exactly when an average is empty, which is exactly
\* when there are fewer than 26 prices
DefaultOnlyWhenEmpty(n, ema12, ema26, r) ==
  /\ (Len(ema12) = 0 \/ Len(ema26) = 0) <=> (n < 26)
  /\ n < 26 => r = MACDZeros
  /\ n >= 26 => (IsFinite(r.macdLine) /\ r.macdLine = Sub(ema12[Len(ema12)], ema26[Len(ema26)]))

\* C14: calculateMACD returns macdLine 0, signalLine 0 and histogram 0 for every
\* series of fewer than 26 prices, and takes that default only when the 12- or
\* the 26-period average is empty
C14_MACDDefault ==
  op = "calculateMACD" =>
    DefaultOnlyWhenEmpty(Len(closePrices), calculateEMA(closePrices, 12),
                         calculateEMA(closePrices, 26), ret)

C14_Witness ==
  /\ op = "calculateMACD"
  /\ Len(closePrices) = 25
  /\ ~Flat(closePrices)
  /\ ret = MACDZeros

\* the result against the sequence of MACD values seq of a series of n prices
SignalAndHistogram(n, seq, r) ==
  /\ (Len(seq) >= 9) <=> (n >= 34)
  /\ r.macdLine = seq[Len(seq)]
  /\ n >= 34 => LET signalEMA == calculateEMA(seq, 9)
                IN  r.signalLine = signalEMA[Len(signalEMA)]
  /\ n < 34 => r.signalLine = Num(0)
  /\ r.histogram = Sub(r.macdLine, r.signalLine)

\* C15: for 26 prices or more, signalLine is the last value of the 9-period EMA
\* of the MACD values when there are at least 9 of them (34 prices or more) and 0
\* otherwise, macdLine is the last MACD value, and histogram is
\* macdLine - signalLine
C15_MACDSignalLine ==
  (op = "calculateMACD" /\ Len(closePrices) >= 26) =>
    SignalAndHistogram(Len(closePrices),
                       MACDValues(calculateEMA(closePrices, 12),
                                  calculateEMA(closePrices, 26)), ret)

C15_Witness ==
  /\ op = "calculateMACD"
  /\ Len(closePrices) = 33
  /\ ret.macdLine # Num(0)
  /\ ret.signalLine = Num(0)
  /\ ret.histogram = ret.macdLine

\* the MACD values seq of a series of n prices against the two averages
AlignedDifferences(n, ema12, ema26, seq, r) ==
  /\ Len(ema12) = n - 11
  /\ Len(ema26) = n - 25
  /\ Len(seq) = n - 25
  /\ \A i \in 0..(Len(seq) - 1) : seq[i + 1] = Sub(ema12[i + 14 + 1], ema26[i + 1])
  /\ r.macdLine = Sub(ema12[Len(ema12)], ema26[Len(ema26)])

\* the same with the MACD values computed from the two averages
AlignedMACD(n, ema12, ema26, r) ==
  AlignedDifferences(n, ema12, ema26, MACDValues(ema12, ema26), r)

\* C20: for n >= 26 prices the sequence of MACD values has n - 25 elements,
\* element i is ema12[i + 14] - ema26[i] (both the averages as of price index
\* i + 25, ema12 having n - 11 values and ema26 n - 25), and macdLine is the
\* latest 12-period average minus the latest 26-period average
C20_MACDAlignment ==
  (op = "calculateMACD" /\ Len(closePrices) >= 26) =>
    AlignedMACD(Len(closePrices), calculateEMA(closePrices, 12),
                calculateEMA(closePrices, 26), ret)

C20_Witness ==
  /\ op = "calculateMACD"
  /\ Len(closePrices) = 60
  /\ ret.macdLine = Num(7)

C17_PricesUnchanged == [][closePrices' = closePrices]_vars

C17_Witness ==
  /\ op = "calculateFibLevels"
  /\ closePrices = <<Num(1), Num(2), Num(3), Num(4), Num(5)>>
  /\ ret.high = Num(5)

\* x has at most the decimal places of scale (100: two, 10000: four)
RoundedTo(x, scale) == IsFinite(x) /\ scale % x[2] = 0

\* C18: every price-valued or indicator field of the SignalResult is rounded: the
\* RSI, the four EMAs, the seven retracement levels and the nearest support and
\* resistance to 2 decimal places, the three MACD values to 4 decimal places
C18_AllFieldsRounded ==
  (op = "generateSignals" /\ Len(closePrices) > 0) =>
    /\ \A x \in {ret.rsi_14, ret.ema_9, ret.ema_21, ret.ema_50, ret.ema_200} :
         RoundedTo(x, 100)
    /\ \A x \in {ret.macd_line, ret.macd_signal, ret.macd_histogram} :
         RoundedTo(x, 10000)
    /\ \A k \in 1..7 : RoundedTo(FibCandidates(ret.fib_levels)[k], 100)
    /\ ret.nearest_fib_support # Null => RoundedTo(ret.nearest_fib_support, 100)
    /\ ret.nearest_fib_resistance # Null => RoundedTo(ret.nearest_fib_resistance, 100)

\* each sub-score within its cap and the sum within 95 of zero, so that the clamp
\* returns the sum itself
WithinCaps(sub, score) ==
  /\ sub.fibScore \in -25..25
  /\ sub.rsiScore \in -20..20
  /\ sub.emaScore \in -20..20
  /\ sub.srScore \in -15..15
  /\ sub.macdScore \in -15..15
  /\ totalScore(sub) \in -95..95
  /\ score = totalScore(sub)

\* C19: the unclamped sum of the five sub-scores generateSignals computes lies
\* between -95 and 95, so the clamp to -100..100 never changes it
C19_SumWithin95 ==
  op = "generateSignals" =>
    WithinCaps(SubScores(Indicators(closePrices)), ret.signal_score)

C19_Witness ==
  /\ op = "generateSignals"
  /\ Len(closePrices) >= 60
  /\ ret.signal_score <= -30

\* the policy table of the retracement-position score in its stated priority
\* order
TableFibScore(position) ==
  IF Gt(position, Num(1)) THEN 25
  ELSE IF Lt(position, Num(0)) THEN -25
  ELSE IF Ge(position, Frac(60, 100)) /\ Le(position, Frac(65, 100)) THEN 20
  ELSE IF Ge(position, Frac(75, 100)) /\ Le(position, Frac(80, 100)) THEN 15
  ELSE IF Ge(position, Frac(35, 100)) /\ Le(position, Frac(40, 100)) THEN 10
  ELSE IF Gt(position, Frac(764, 1000)) THEN 5
  ELSE IF Lt(position, Frac(30, 100)) THEN -15
  ELSE 0

\* C21: for a record with range # 0 scoreFibPosition returns the value of the
\* policy table, evaluated in its stated priority order, on
\* position = (price - low) / range; for range = 0 it returns 0
C21_FibScoreTable ==
  op = "scoreFibPosition" =>
    LET range == Sub(arg.fib.high, arg.fib.low)
    IN  /\ range # Num(0) => ret = TableFibScore(Div(Sub(arg.price, arg.fib.low), range))
        /\ range = Num(0) => ret = 0

C21_Witness ==
  /\ op = "scoreFibPosition"
  /\ Div(Sub(arg.price, arg.fib.low), Sub(arg.fib.high, arg.fib.low)) = Frac(765, 1000)
  /\ ret = 15

\* +weight when the price is strictly above the average, -weight when strictly
\* below, 0 when equal
PriceTerm(price, ema, weight) ==
  IF Gt(price, ema) THEN weight ELSE IF Lt(price, ema) THEN -weight ELSE 0

Clamp(x, lo, hi) == IF x < lo THEN lo ELSE IF x > hi THEN hi ELSE x

\* C22: scoreEMAAlignment returns, clamped to -20..20, the sum of +5/+4/+4/+3 for
\* each of the 9/21/50/200 averages the price is strictly above, minus the same
\* for each it is strictly below, plus 4 when ema9 > ema21 > ema50 > ema200 and
\* minus 4 when ema9 < ema21 < ema50 < ema200
C22_EMAScoreSum ==
  op = "scoreEMAAlignment" =>
    ret = Clamp(PriceTerm(arg.price, arg.ema9, 5) + PriceTerm(arg.price, arg.ema21, 4)
                + PriceTerm(arg.price, arg.ema50, 4) + PriceTerm(arg.price, arg.ema200, 3)
                + (IF Gt(arg.ema9, arg.ema21) /\ Gt(arg.ema21, arg.ema50)
                      /\ Gt(arg.ema50, arg.ema200) THEN 4 ELSE 0)
                - (IF Lt(arg.ema9, arg.ema21) /\ Lt(arg.ema21, arg.ema50)
                      /\ Lt(arg.ema50, arg.ema200) THEN 4 ELSE 0),
                -20, 20)

C22_Witness ==
  /\ op = "scoreEMAAlignment"
  /\ Gt(arg.price, arg.ema9)
  /\ Gt(arg.ema9, arg.ema21)
  /\ Gt(arg.ema21, arg.ema50)
  /\ Gt(arg.ema50, arg.ema200)
  /\ ret = 20

\* 12 within 2%, 6 within 5%, 0 beyond, for a distance as a fraction of the price
ProximityPoints(dist) ==
  IF Le(dist, Frac(2, 100)) THEN 12 ELSE IF Le(dist, Frac(5, 100)) THEN 6 ELSE 0

C24_MACDScoreSum ==
  op = "scoreMACDMomentum" =>
    /\ ret = Clamp((IF Gt(arg.macdLine, arg.signalLine) THEN 7 ELSE -7)
                   + (IF Gt(arg.histogram, Num(0)) THEN 5 ELSE -5)
                   + (IF Gt(arg.macdLine, Num(0)) /\ Gt(arg.signalLine, Num(0)) THEN 3
                      ELSE IF Lt(arg.macdLine, Num(0)) /\ Lt(arg.signalLine, Num(0)) THEN -3
                      ELSE 0),
                   -15, 15)
    /\ (arg.macdLine = arg.signalLine /\ arg.histogram = Num(0)) => ret \in {-15, -12, -9}

C24_Witness ==
  /\ op = "scoreMACDMomentum"
  /\ arg.macdLine = Num(0)
  /\ arg.signalLine = Num(0)
  /\ arg.histogram = Num(0)
  /\ ret = -12

\* C25: scoreRSI gives +20 at or below 30, else +10 at or below 40, else -20 at
\* or above 70, else -10 at or above 60, else 0; so 50 scores 0 and 100 scores -20
C25_RSIScoreTable ==
  op = "scoreRSI" =>
    /\ ret = (IF Le(arg, Num(30)) THEN 20
              ELSE IF Le(arg, Num(40)) THEN 10
              ELSE IF Ge(arg, Num(70)) THEN -20
              ELSE IF Ge(arg, Num(60)) THEN -10
              ELSE 0)
    /\ arg = Num(50) => ret = 0
    /\ arg = Num(100) => ret = -20

C25_Witness ==
  /\ op = "scoreRSI"
  /\ arg = Num(100)
  /\ ret = -20

\* the positions of the cron handler
InHandler == op \in {"GET", "tickers", "fetch", "loop", "done"}

\* C26: in the cron run generateSignals is never called with an empty series; a
\* ticker whose fetched history is missing or empty gets the entry 'no_data' and
\* no engine call; every ticker yields exactly one entry of results
C26_NoEmptySeriesToEngine ==
  InHandler =>
    /\ \A c \in 1..Len(ret.calls) : ret.calls[c].closePrices # <<>>
    /\ Len(ret.results) = ret.i
    /\ \A k \in 1..ret.i :
         /\ ret.results[k].ticker = ret.tickers[k]
         /\ (ret.tickers[k] \notin DOMAIN ret.priceMap \/ ret.fetched[ret.tickers[k]] = <<>>)
              => /\ ret.results[k].status = "no_data"
                 /\ \A c \in 1..Len(ret.calls) : ret.calls[c].ticker # ret.tickers[k]
    /\ (op = "done" /\ ret.status = 200) => Len(ret.results) = Len(ret.tickers)

C26_Witness ==
  /\ op = "done"
  /\ ret.status = 200
  /\ Len(ret.tickers) = 2
  /\ ret.fetched[ret.tickers[1]] = <<>>
  /\ ret.results[1].status = "no_data"
  /\ ret.results[2].status = "ok"
  /\ Len(ret.calls) = 1

\* C27: the handler reads tickers, fetches prices or writes to the database only
\* if the request supplies a secret equal to a configured CRON_SECRET; otherwise
\* it answers 401 and does nothing else
C27_OnlyWithConfiguredSecret ==
  LET supplied   == ~Nullish(arg.request.secretParam) \/ ~Nullish(arg.request.authorization)
      configured == ~Nullish(arg.env.CRON_SECRET)
      entitled   == supplied /\ configured /\ SuppliedSecret(arg.request) = arg.env.CRON_SECRET
  IN  (InHandler /\ op # "GET") =>
        IF entitled THEN ret.status # 401
        ELSE ret.status = 401 /\ ret.effects = <<>>

\* the current price lies in the window of the retracement record r.fib_levels,
\* between the two nearest levels, at a position in [0, 1] that scores neither
\* +25 nor -25
PriceInsideWindow(price, r) ==
  LET fib   == r.fib_levels
      range == Sub(fib.high, fib.low)
  IN  /\ Le(fib.low, price)
      /\ Le(price, fib.high)
      /\ r.nearest_fib_support # Null
      /\ r.nearest_fib_resistance # Null
      /\ Le(r.nearest_fib_support, price)
      /\ Le(price, r.nearest_fib_resistance)
      /\ range # Num(0) =>
           /\ Ge(Div(Sub(price, fib.low), range), Num(0))
           /\ Le(Div(Sub(price, fib.low), range), Num(1))
      /\ scoreFibPosition(price, fib) \notin {25, -25}

\* C28: in generateSignals the current price is the last close and lies in the
\* 60-price window: low <= price <= high, the nearest support and resistance are
\* both non-null with support <= price <= resistance, the position is in [0, 1]
\* and the retracement-position sub-score is never +25 or -25
C28_PriceInsideWindow ==
  (op = "generateSignals" /\ Len(closePrices) > 0) =>
    PriceInsideWindow(closePrices[Len(closePrices)], ret)

C28_Witness ==
  /\ op = "generateSignals"
  /\ Len(closePrices) > 60
  /\ Lt(ret.fib_levels.low, closePrices[Len(closePrices)])
  /\ Lt(closePrices[Len(closePrices)], ret.fib_levels.high)
  /\ Lt(ret.nearest_fib_support, closePrices[Len(closePrices)])
  /\ Lt(closePrices[Len(closePrices)], ret.nearest_fib_resistance)
  /\ Gt(closePrices[1], ret.fib_levels.high)

\* C29: for a constant series of positive prices generateSignals returns
\* signal_score -12 and 'neutral' when the series has fewer than 15 prices, and
\* -32 and 'sell' when it has 15 or more
C29_FlatSeriesScore ==
  (op = "generateSignals" /\ Len(closePrices) > 0 /\ Flat(closePrices)
     /\ Gt(closePrices[1], Num(0))) =>
    IF Len(closePrices) < 15
    THEN ret.signal_score = -12 /\ ret.signal_label = "neutral"
    ELSE ret.signal_score = -32 /\ ret.signal_label = "sell"

\* the four averages generateSignals passes to scoreEMAAlignment
LatestEMAs(prices) ==
  [ema9   |-> getLatestEMA(prices, 9),
   ema21  |-> getLatestEMA(prices, 21),
   ema50  |-> getLatestEMA(prices, 50),
   ema200 |-> getLatestEMA(prices, 200)]

FallbackHolds(n, price, ema, r) ==
  /\ n < 9 => (ema.ema9 = price /\ r.ema_9 = RoundTo(price, 100)
                 /\ PriceTerm(price, ema.ema9, 5) = 0)
  /\ n < 21 => (ema.ema21 = price /\ r.ema_21 = RoundTo(price, 100)
                  /\ PriceTerm(price, ema.ema21, 4) = 0)
  /\ n < 50 => (ema.ema50 = price /\ r.ema_50 = RoundTo(price, 100)
                  /\ PriceTerm(price, ema.ema50, 4) = 0)
  /\ n < 200 => (ema.ema200 = price /\ r.ema_200 = RoundTo(price, 100)
                   /\ PriceTerm(price, ema.ema200, 3) = 0)
  /\ n < 200 =>
       /\ scoreEMAAlignment(price, ema.ema9, ema.ema21, ema.ema50, ema.ema200) \in -13..13
       /\ (Gt(ema.ema9, ema.ema21) /\ Gt(ema.ema21, ema.ema50) /\ Gt(ema.ema50, ema.ema200))
            => (Lt(price, ema.ema9) /\ Lt(price, ema.ema21) /\ Lt(price, ema.ema50))

\* C30: with fewer prices than an average's period the reported average is the
\* latest price, rounded, and its price term is 0; so with fewer than 200 prices
\* the alignment sub-score lies in -13..13, and the bullish order is possible only
\* with the price below the 9-, 21- and 50-period averages
C30_FallbackToPrice ==
  (op = "generateSignals" /\ Len(closePrices) > 0) =>
    FallbackHolds(Len(closePrices), closePrices[Len(closePrices)], LatestEMAs(closePrices), ret)

C30_Witness ==
  /\ op = "generateSignals"
  /\ Len(closePrices) = 50
  /\ ret.ema_200 = closePrices[50]
  /\ Gt(ret.ema_9, ret.ema_21)
  /\ Gt(ret.ema_21, ret.ema_50)
  /\ Gt(ret.ema_50, ret.ema_200)
  /\ LET ema == LatestEMAs(closePrices)
     IN  scoreEMAAlignment(closePrices[50], ema.ema9, ema.ema21, ema.ema50, ema.ema200) = -9

============================================================================
